---------------------------- MODULE Spec2Model ----------------------------
(***************************************************************************)
(* Model of ogr/ogrsf_frmts/sqlite/ogrsqliteutility.cpp: the text         *)
(* utilities SQLTokenize, SQLUnescape, SQLEscapeLiteral and SQLEscapeName, *)
(* and the statement handling of SQLGetInteger64.                          *)
(*                                                                         *)
(* A C string is a sequence of one-character strings; the terminating      *)
(* '\0' is the value NUL read one position past the last character.  A     *)
(* char pointer that walks a string is the 1-based index of the character  *)
(* it points at.  The locals of one call are one record whose fields carry *)
(* the names of the locals.                                                *)
(***************************************************************************)
EXTENDS Integers, Sequences, FiniteSets, TLC

\* Length bound of the raw text a run starts from.
MaxLen == 4
\* Length bound of the text that follows a closing delimiter.
MaxTrail == 1
\* Bound of the lengths, added up, of the arguments of the calls that run
\* at the same time.
MaxCallChars == 3
\* The number of calls that run at the same time.
NCalls == 2
\* Bound of the absolute value of the integer a row holds.
MaxValue == 3

\* '\0'
NUL == "NUL"
SQ == "'"
DQ == "\""
Quotes == {SQ, DQ}
Punct == {"(", ")", ","}
\* The characters texts are built from: a word character, the space, the
\* three punctuation characters and the two quote characters.
Chars == {"a", " "} \cup Punct \cup Quotes
\* The characters of the text after a closing delimiter: the delimiter
\* itself, which the text may hold but not begin with, and the other quote
\* character.
TrailChars == Quotes
\* The characters of the arguments of calls that run beside other calls.
CallChars == {"a"} \cup Quotes

Strings(S, n) == UNION {[1..k -> S] : k \in 0..n}

\* p[i] for a '\0'-terminated string p
CharAt(p, i) == IF i <= Len(p) THEN p[i] ELSE NUL

-----------------------------------------------------------------------------
(* SQLTokenize                                                             *)

\* The locals of SQLTokenize on entry to the loop.
TokInit(s) ==
    [str |-> s, pszStr |-> 1, papszTokens |-> <<>>, bInQuote |-> FALSE,
     chQuoteChar |-> NUL, bInSpace |-> TRUE, osCurrentToken |-> <<>>]

\* if( !bInSpace ) { CSLAddString(papszTokens, osCurrentToken); clear(); }
TokFlushWord(f) ==
    IF ~f.bInSpace
    THEN [f EXCEPT !.papszTokens = Append(@, f.osCurrentToken),
                   !.osCurrentToken = <<>>]
    ELSE f

\* *pszStr == ' ' && !bInQuote
TokSpace(f) ==
    [TokFlushWord(f) EXCEPT !.bInSpace = TRUE, !.pszStr = @ + 1]

\* TokPunct that takes the punctuation character for a word character.
TokPunct_Merge(f) ==
    [f EXCEPT !.osCurrentToken = Append(@, CharAt(f.str, f.pszStr)),
              !.bInSpace = FALSE,
              !.pszStr = @ + 1]

\* (*pszStr == '(' || *pszStr == ')' || *pszStr == ',') && !bInQuote
TokPunct(f) ==
    [TokFlushWord(f) EXCEPT
        !.papszTokens = Append(@, <<CharAt(f.str, f.pszStr)>>),
        !.osCurrentToken = <<>>,
        !.bInSpace = TRUE,
        !.pszStr = @ + 1]

\* TokQuoteDoubled that keeps one of the two quote characters.
TokQuoteDoubled_Collapse(f) ==
    [f EXCEPT !.osCurrentToken = Append(@, CharAt(f.str, f.pszStr)),
              !.pszStr = @ + 2]

\* bInQuote && *pszStr == chQuoteChar && pszStr[1] == chQuoteChar
TokQuoteDoubled(f) ==
    [f EXCEPT !.osCurrentToken = @ \o <<CharAt(f.str, f.pszStr),
                                        CharAt(f.str, f.pszStr)>>,
              !.pszStr = @ + 2]

\* TokQuoteClose that emits the token without the closing quote character.
TokQuoteClose_NoAppend(f) ==
    [f EXCEPT !.papszTokens = Append(@, f.osCurrentToken),
              !.osCurrentToken = <<>>,
              !.bInSpace = TRUE,
              !.bInQuote = FALSE,
              !.chQuoteChar = NUL,
              !.pszStr = @ + 1]

\* TokQuoteClose without bInSpace = true.
TokQuoteClose_NoGap(f) ==
    [f EXCEPT !.papszTokens =
                  Append(@, Append(f.osCurrentToken, CharAt(f.str, f.pszStr))),
              !.osCurrentToken = <<>>,
              !.bInQuote = FALSE,
              !.chQuoteChar = NUL,
              !.pszStr = @ + 1]

\* bInQuote && *pszStr == chQuoteChar
TokQuoteClose(f) ==
    [f EXCEPT !.papszTokens =
                  Append(@, Append(f.osCurrentToken, CharAt(f.str, f.pszStr))),
              !.osCurrentToken = <<>>,
              !.bInSpace = TRUE,
              !.bInQuote = FALSE,
              !.chQuoteChar = NUL,
              !.pszStr = @ + 1]

\* TokQuoteOther that lets either quote character close the span.
TokQuoteOther_Close(f) ==
    [f EXCEPT !.papszTokens =
                  Append(@, Append(f.osCurrentToken, CharAt(f.str, f.pszStr))),
              !.osCurrentToken = <<>>,
              !.bInSpace = TRUE,
              !.bInQuote = FALSE,
              !.chQuoteChar = NUL,
              !.pszStr = @ + 1]

\* bInQuote, the other quote character
TokQuoteOther(f) ==
    [f EXCEPT !.osCurrentToken = Append(@, CharAt(f.str, f.pszStr)),
              !.pszStr = @ + 1]

\* TokQuoteOpen without osCurrentToken.clear().
TokQuoteOpen_NoClear(f) ==
    [f EXCEPT !.chQuoteChar = CharAt(f.str, f.pszStr),
              !.osCurrentToken = Append(@, CharAt(f.str, f.pszStr)),
              !.bInQuote = TRUE,
              !.bInSpace = FALSE,
              !.pszStr = @ + 1]

\* !bInQuote: a quote character opens a span
TokQuoteOpen(f) ==
    [f EXCEPT !.chQuoteChar = CharAt(f.str, f.pszStr),
              !.osCurrentToken = <<CharAt(f.str, f.pszStr)>>,
              !.bInQuote = TRUE,
              !.bInSpace = FALSE,
              !.pszStr = @ + 1]

\* *pszStr == '"' || *pszStr == '\''
TokQuote(f) ==
    LET c == CharAt(f.str, f.pszStr) IN
    IF f.bInQuote /\ c = f.chQuoteChar /\ CharAt(f.str, f.pszStr + 1) = f.chQuoteChar
    THEN TokQuoteDoubled(f)
    ELSE IF f.bInQuote /\ c = f.chQuoteChar THEN TokQuoteClose(f)
    ELSE IF f.bInQuote THEN TokQuoteOther(f)
    ELSE TokQuoteOpen(f)

\* any other character
TokOther(f) ==
    [f EXCEPT !.osCurrentToken = Append(@, CharAt(f.str, f.pszStr)),
              !.bInSpace = FALSE,
              !.pszStr = @ + 1]

\* One iteration of while( *pszStr != '\0' ).
TokStep(f) ==
    LET c == CharAt(f.str, f.pszStr) IN
    IF c = " " /\ ~f.bInQuote THEN TokSpace(f)
    ELSE IF c \in Punct /\ ~f.bInQuote THEN TokPunct(f)
    ELSE IF c \in Quotes THEN TokQuote(f)
    ELSE TokOther(f)

\* TokReturn without the test for an empty osCurrentToken.
TokReturn_Always(f) ==
    [f EXCEPT !.papszTokens = Append(@, f.osCurrentToken)]

\* TokReturn that drops the text of a span still open at the end.
TokReturn_Strict(f) ==
    IF f.osCurrentToken # <<>> /\ ~f.bInQuote
    THEN [f EXCEPT !.papszTokens = Append(@, f.osCurrentToken)]
    ELSE f

\* if( !osCurrentToken.empty() ) CSLAddString(papszTokens, osCurrentToken);
TokReturn(f) ==
    IF f.osCurrentToken # <<>>
    THEN [f EXCEPT !.papszTokens = Append(@, f.osCurrentToken)]
    ELSE f

RECURSIVE TokLoop(_)
TokLoop(f) ==
    IF CharAt(f.str, f.pszStr) = NUL THEN f ELSE TokLoop(TokStep(f))

\* The token list SQLTokenize returns for the text s.
SQLTokenize(s) == TokReturn(TokLoop(TokInit(s))).papszTokens

-----------------------------------------------------------------------------
(* SQLUnescape                                                             *)

\* The locals of SQLUnescape after char chQuoteChar = pszVal[0].
UnInit(s) ==
    [str |-> s, pszVal |-> 1, chQuoteChar |-> CharAt(s, 1), osRet |-> <<>>]

\* UnPassThrough that returns early for the empty text only.
UnPassThrough_EmptyOnly(f) == f.chQuoteChar = NUL

\* if( chQuoteChar != '\'' && chQuoteChar != '"' ) return pszVal;
UnPassThrough(f) == f.chQuoteChar # SQ /\ f.chQuoteChar # DQ

\* CPLString osRet; pszVal ++;
UnEnter(f) == [f EXCEPT !.pszVal = @ + 1]

\* UnExit without the break: every chQuoteChar is taken for the first of
\* a pair.
UnExit_NulOnly(f) == CharAt(f.str, f.pszVal) = NUL

\* The loop is left: *pszVal == '\0', or the break at a chQuoteChar that
\* is not followed by another one.
UnExit(f) ==
    \/ CharAt(f.str, f.pszVal) = NUL
    \/ /\ CharAt(f.str, f.pszVal) = f.chQuoteChar
       /\ CharAt(f.str, f.pszVal + 1) # f.chQuoteChar

\* UnStep without the pszVal ++ that skips the first quote of a pair.
UnStep_NoSkip(f) ==
    [f EXCEPT !.osRet = Append(@, CharAt(f.str, f.pszVal)),
              !.pszVal = @ + 1]

\* One iteration of while( *pszVal != '\0' ) that does not break.
UnStep(f) ==
    LET p == IF CharAt(f.str, f.pszVal) = f.chQuoteChar
             THEN f.pszVal + 1
             ELSE f.pszVal
    IN  [f EXCEPT !.osRet = Append(@, CharAt(f.str, p)),
                  !.pszVal = p + 1]

RECURSIVE UnLoop(_)
UnLoop(f) == IF UnExit(f) THEN f ELSE UnLoop(UnStep(f))

\* The text SQLUnescape returns for the text s.
SQLUnescape(s) ==
    IF UnPassThrough(UnInit(s)) THEN s ELSE UnLoop(UnEnter(UnInit(s))).osRet

-----------------------------------------------------------------------------
(* SQLEscapeLiteral and SQLEscapeName                                      *)

\* EscapeLiteralChar that does not double the single quote.
EscapeLiteralChar_NoDouble(osVal, c) == Append(osVal, c)

\* One iteration of the loop of SQLEscapeLiteral on the character c.
EscapeLiteralChar(osVal, c) ==
    IF c = SQ THEN Append(Append(osVal, SQ), c) ELSE Append(osVal, c)

RECURSIVE EscapeLiteralLoop(_, _, _)
EscapeLiteralLoop(pszLiteral, i, osVal) ==
    IF CharAt(pszLiteral, i) = NUL
    THEN osVal
    ELSE EscapeLiteralLoop(pszLiteral, i + 1,
                           EscapeLiteralChar(osVal, CharAt(pszLiteral, i)))

SQLEscapeLiteral(pszLiteral) == EscapeLiteralLoop(pszLiteral, 1, <<>>)

\* EscapeNameChar copied from SQLEscapeLiteral: doubles the single quote.
EscapeNameChar_AsLiteral(osRet, c) ==
    IF c = SQ THEN osRet \o <<SQ, SQ>> ELSE Append(osRet, c)

\* EscapeNameChar that does not double the double quote.
EscapeNameChar_NoDouble(osRet, c) == Append(osRet, c)

\* One iteration of the loop of SQLEscapeName on the character c.
EscapeNameChar(osRet, c) ==
    IF c = DQ THEN osRet \o <<DQ, DQ>> ELSE Append(osRet, c)

RECURSIVE EscapeNameLoop(_, _, _)
EscapeNameLoop(pszName, i, osRet) ==
    IF CharAt(pszName, i) = NUL
    THEN osRet
    ELSE EscapeNameLoop(pszName, i + 1,
                        EscapeNameChar(osRet, CharAt(pszName, i)))

SQLEscapeName(pszName) == EscapeNameLoop(pszName, 1, <<>>)

-----------------------------------------------------------------------------
(* SQLGetInteger64.  sqlite3_prepare_v2, sqlite3_step and                  *)
(* sqlite3_column_int64 are the database engine's: each returns any of the *)
(* results listed.  poStmt is "nullptr", "prepared" or "finalized";        *)
(* finalizes counts the calls of sqlite3_finalize and errWrites the        *)
(* stores through err.                                                     *)

PrepareResults == {"SQLITE_OK", "SQLITE_ERROR", "SQLITE_BUSY"}

StepResults == {"SQLITE_ROW", "SQLITE_DONE", "SQLITE_BUSY", "SQLITE_ERROR"}

\* The values sqlite3_column_int64 returns.
Values == (0 - MaxValue)..MaxValue

\* The values *err holds when the function is called.
ErrValues == {"OGRERR_NONE", "OGRERR_FAILURE"}

\* SQLGetInteger64(poDb, pszSQL, err) up to sqlite3_stmt *poStmt = nullptr;
\* errPtr is err != nullptr and e the value of *err at the call.
GetIntegerEntry(errPtr, e) ==
    [pc |-> "prepare", errPtr |-> errPtr, err |-> e, errWrites |-> 0,
     rc |-> "unset", poStmt |-> "nullptr", finalizes |-> 0, i |-> 0,
     ret |-> 0]

\* if ( err ) *err = v;
GiSetErr(g, v) ==
    IF g.errPtr THEN [g EXCEPT !.err = v, !.errWrites = @ + 1] ELSE g

\* sqlite3_finalize(poStmt);
GiFinalize(g) == [g EXCEPT !.poStmt = "finalized", !.finalizes = @ + 1]

\* int rc = sqlite3_prepare_v2(poDb, pszSQL, -1, &poStmt, nullptr);
GiPrepare(g, code) ==
    [g EXCEPT !.rc = code,
              !.poStmt = IF code = "SQLITE_OK" THEN "prepared" ELSE "nullptr",
              !.pc = "prepared"]

\* rc != SQLITE_OK: CPLError, if ( err ) *err = OGRERR_FAILURE; return 0;
GiPrepareFailed(g) ==
    [GiSetErr(g, "OGRERR_FAILURE") EXCEPT !.ret = 0, !.pc = "returned"]

\* rc = sqlite3_step(poStmt);
GiStep(g, code) == [g EXCEPT !.rc = code, !.pc = "stepped"]

\* rc != SQLITE_ROW: if ( err ) *err = OGRERR_FAILURE;
GiNoRowSetErr(g) == [GiSetErr(g, "OGRERR_FAILURE") EXCEPT !.pc = "noRowFinalize"]

\* GiNoRowFinalize that goes on to the return without sqlite3_finalize.
GiNoRowFinalize_Leak(g) == [g EXCEPT !.pc = "noRowReturn"]

\* rc != SQLITE_ROW: sqlite3_finalize(poStmt);
GiNoRowFinalize(g) == [GiFinalize(g) EXCEPT !.pc = "noRowReturn"]

\* rc != SQLITE_ROW: return 0;
GiNoRowReturn(g) == [g EXCEPT !.ret = 0, !.pc = "returned"]

\* GIntBig i = sqlite3_column_int64(poStmt, 0);
GiColumn(g, v) == [g EXCEPT !.i = v, !.pc = "rowFinalize"]

\* sqlite3_finalize(poStmt); after the row was read
GiRowFinalize(g) == [GiFinalize(g) EXCEPT !.pc = "rowSetErr"]

\* if ( err ) *err = OGRERR_NONE;
GiRowSetErr(g) == [GiSetErr(g, "OGRERR_NONE") EXCEPT !.pc = "rowReturn"]

\* return i;
GiRowReturn(g) == [g EXCEPT !.ret = g.i, !.pc = "returned"]

-----------------------------------------------------------------------------
(* The calls made on one raw text                                          *)

VARIABLES
    raw,     \* the text the run starts from
    pc,      \* where the run is
    quote,   \* the delimiter of the escaper applied to raw, NUL when none
    esc,     \* the escaper's result
    esc2,    \* the result of escaping esc once more
    trail,   \* the text appended after the closing delimiter
    tok,     \* the locals of the SQLTokenize call
    un,      \* the locals of the SQLUnescape call
    unRet,   \* the value SQLUnescape returned
    calls,   \* the calls in progress at the same time, each with its locals
    gi       \* the call of SQLGetInteger64 and the statement it works on

vars == <<raw, pc, quote, esc, esc2, trail, tok, un, unRet, calls, gi>>

\* escape_q: the escaper that goes with the delimiter q
Escape(q, s) == IF q = SQ THEN SQLEscapeLiteral(s) ELSE SQLEscapeName(s)

\* q + escape_q(s) + q
Wrap(q, e) == <<q>> \o e \o <<q>>

Init ==
    /\ raw \in Strings(Chars, MaxLen)
    /\ pc = "start"
    /\ quote = NUL
    /\ esc = <<>>
    /\ esc2 = <<>>
    /\ trail = <<>>
    /\ tok = TokInit(<<>>)
    /\ un = UnInit(<<>>)
    /\ unRet = <<>>
    /\ calls = <<>>
    /\ gi = GetIntegerEntry(FALSE, "unset")

\* SQLEscapeLiteral(raw)
EscapeLiteral ==
    /\ pc = "start"
    /\ quote' = SQ
    /\ esc' = SQLEscapeLiteral(raw)
    /\ pc' = "escaped"
    /\ UNCHANGED <<gi, calls, raw, esc2, trail, tok, un, unRet>>

\* SQLEscapeName(raw)
EscapeName ==
    /\ pc = "start"
    /\ quote' = DQ
    /\ esc' = SQLEscapeName(raw)
    /\ pc' = "escaped"
    /\ UNCHANGED <<gi, calls, raw, esc2, trail, tok, un, unRet>>

\* The same escaper applied to its own result.
EscapeAgain ==
    /\ pc = "escaped"
    /\ esc2' = Escape(quote, esc)
    /\ pc' = "escapedTwice"
    /\ UNCHANGED <<gi, calls, raw, quote, esc, trail, tok, un, unRet>>

\* SQLTokenize(raw): entry
TokenizeRaw ==
    /\ pc = "start"
    /\ tok' = TokInit(raw)
    /\ pc' = "tokenize"
    /\ UNCHANGED <<gi, calls, raw, quote, esc, esc2, trail, un, unRet>>

\* SQLTokenize(q + escape_q(raw) + q): entry
TokenizeWrapped ==
    /\ pc = "escaped"
    /\ tok' = TokInit(Wrap(quote, esc))
    /\ pc' = "tokenize"
    /\ UNCHANGED <<gi, calls, raw, quote, esc, esc2, trail, un, unRet>>

\* SQLTokenize: one iteration of the loop
TokenizeStep ==
    /\ pc = "tokenize"
    /\ CharAt(tok.str, tok.pszStr) # NUL
    /\ tok' = TokStep(tok)
    /\ UNCHANGED <<gi, calls, raw, pc, quote, esc, esc2, trail, un, unRet>>

\* SQLTokenize: the loop is over, the last token is added, return
TokenizeReturn ==
    /\ pc = "tokenize"
    /\ CharAt(tok.str, tok.pszStr) = NUL
    /\ tok' = TokReturn(tok)
    /\ pc' = "tokenized"
    /\ UNCHANGED <<gi, calls, raw, quote, esc, esc2, trail, un, unRet>>

\* SQLUnescape(s): entry, up to the loop or the early return
UnescapeCall(s) ==
    /\ un' = IF UnPassThrough(UnInit(s)) THEN UnInit(s) ELSE UnEnter(UnInit(s))
    /\ pc' = IF UnPassThrough(UnInit(s)) THEN "unescaped" ELSE "unescape"
    /\ unRet' = IF UnPassThrough(UnInit(s)) THEN s ELSE unRet

\* SQLUnescape(raw)
UnescapeRaw ==
    /\ pc = "start"
    /\ UnescapeCall(raw)
    /\ UNCHANGED <<gi, calls, raw, quote, esc, esc2, trail, tok>>

\* SQLUnescape(q + escape_q(raw) + q + t), t not beginning with q
UnescapeWrapped ==
    /\ pc = "escaped"
    /\ \E t \in Strings(TrailChars, MaxTrail) :
          /\ CharAt(t, 1) # quote
          /\ trail' = t
          /\ UnescapeCall(Wrap(quote, esc) \o t)
    /\ UNCHANGED <<gi, calls, raw, quote, esc, esc2, tok>>

\* SQLUnescape: one iteration of the loop
UnescapeStep ==
    /\ pc = "unescape"
    /\ ~UnExit(un)
    /\ un' = UnStep(un)
    /\ UNCHANGED <<gi, calls, raw, pc, quote, esc, esc2, trail, tok, unRet>>

\* SQLUnescape: the loop is over, return osRet
UnescapeReturn ==
    /\ pc = "unescape"
    /\ UnExit(un)
    /\ unRet' = un.osRet
    /\ pc' = "unescaped"
    /\ UNCHANGED <<gi, calls, raw, quote, esc, esc2, trail, tok, un>>

Next ==
    \/ EscapeLiteral
    \/ EscapeName
    \/ EscapeAgain
    \/ TokenizeRaw
    \/ TokenizeWrapped
    \/ TokenizeStep
    \/ TokenizeReturn
    \/ UnescapeRaw
    \/ UnescapeWrapped
    \/ UnescapeStep
    \/ UnescapeReturn

Spec == Init /\ [][Next]_vars

TypeOK ==
    /\ pc \in {"start", "escaped", "escapedTwice", "tokenize", "tokenized",
               "unescape", "unescaped"}
    /\ quote \in Quotes \cup {NUL}
    /\ tok.pszStr \in 1..(Len(tok.str) + 1)
    /\ un.pszVal \in 1..(Len(un.str) + 1)

-----------------------------------------------------------------------------
(* Calls that run at the same time.  Every variable of the four functions  *)
(* is a parameter or an automatic local, so a call is its own record       *)
(* [fn, arg, pc, f, ret] and a step of a call reads and writes f only.     *)

Functions == {"SQLTokenize", "SQLUnescape", "SQLEscapeLiteral", "SQLEscapeName"}

\* The locals of SQLEscapeLiteral on entry to the loop.
EscapeLiteralInit(s) == [str |-> s, i |-> 1, osVal |-> <<>>]

\* The locals of SQLEscapeName on entry to the loop.
EscapeNameInit(s) == [str |-> s, pszName |-> 1, osRet |-> <<>>]

\* A call of fn(s) that has set up its locals.
NewCall(fn, s) ==
    [fn |-> fn, arg |-> s, ret |-> <<>>,
     pc |-> IF fn = "SQLUnescape" THEN "entry" ELSE "loop",
     f |-> CASE fn = "SQLTokenize" -> TokInit(s)
             [] fn = "SQLUnescape" -> UnInit(s)
             [] fn = "SQLEscapeLiteral" -> EscapeLiteralInit(s)
             [] fn = "SQLEscapeName" -> EscapeNameInit(s)]

\* The next step of the call c of SQLTokenize.
TokenizeCallStep(c) ==
    IF CharAt(c.f.str, c.f.pszStr) = NUL
    THEN [c EXCEPT !.f = TokReturn(@), !.pc = "done",
                   !.ret = TokReturn(c.f).papszTokens]
    ELSE [c EXCEPT !.f = TokStep(@)]

\* The next step of the call c of SQLUnescape.
UnescapeCallStep(c) ==
    IF c.pc = "entry"
    THEN IF UnPassThrough(c.f)
         THEN [c EXCEPT !.pc = "done", !.ret = c.arg]
         ELSE [c EXCEPT !.f = UnEnter(@), !.pc = "loop"]
    ELSE IF UnExit(c.f)
         THEN [c EXCEPT !.pc = "done", !.ret = c.f.osRet]
         ELSE [c EXCEPT !.f = UnStep(@)]

\* The next step of the call c of SQLEscapeLiteral.
EscapeLiteralCallStep(c) ==
    IF CharAt(c.f.str, c.f.i) = NUL
    THEN [c EXCEPT !.pc = "done", !.ret = c.f.osVal]
    ELSE [c EXCEPT !.f.osVal = EscapeLiteralChar(@, CharAt(c.f.str, c.f.i)),
                   !.f.i = @ + 1]

\* The next step of the call c of SQLEscapeName.
EscapeNameCallStep(c) ==
    IF CharAt(c.f.str, c.f.pszName) = NUL
    THEN [c EXCEPT !.pc = "done", !.ret = c.f.osRet]
    ELSE [c EXCEPT
            !.f.osRet = EscapeNameChar(@, CharAt(c.f.str, c.f.pszName)),
            !.f.pszName = @ + 1]

CallStep(c) ==
    CASE c.fn = "SQLTokenize" -> TokenizeCallStep(c)
      [] c.fn = "SQLUnescape" -> UnescapeCallStep(c)
      [] c.fn = "SQLEscapeLiteral" -> EscapeLiteralCallStep(c)
      [] c.fn = "SQLEscapeName" -> EscapeNameCallStep(c)

\* StepCalls with chQuoteChar declared static: the value the stepping call
\* leaves in chQuoteChar is the one every call of SQLTokenize and
\* SQLUnescape reads next.
StepCalls_StaticQuoteChar(cs, i) ==
    LET stepped == CallStep(cs[i])
        HasQuoteChar(c) == c.fn \in {"SQLTokenize", "SQLUnescape"}
    IN  [j \in DOMAIN cs |->
            IF j = i THEN stepped
            ELSE IF HasQuoteChar(stepped) /\ HasQuoteChar(cs[j])
                 THEN [cs[j] EXCEPT !.f.chQuoteChar = stepped.f.chQuoteChar]
                 ELSE cs[j]]

\* The calls cs after call i took its next step: the locals of the other
\* calls are untouched.
StepCalls(cs, i) == [cs EXCEPT ![i] = CallStep(cs[i])]

\* The number of characters of the arguments of the calls cs together.
RECURSIVE ArgChars(_)
ArgChars(cs) ==
    IF cs = <<>> THEN 0 ELSE Len(cs[1].arg) + ArgChars(Tail(cs))

InitCalls ==
    /\ calls = <<>>
    /\ raw = <<>>
    /\ pc = "start"
    /\ quote = NUL
    /\ esc = <<>>
    /\ esc2 = <<>>
    /\ trail = <<>>
    /\ tok = TokInit(<<>>)
    /\ un = UnInit(<<>>)
    /\ unRet = <<>>
    /\ gi = GetIntegerEntry(FALSE, "unset")

\* A thread calls one of the functions while the calls made before are at
\* any point of their scans.
CallStarts ==
    /\ Len(calls) < NCalls
    /\ \E fn \in Functions :
          \E s \in Strings(CallChars, MaxCallChars - ArgChars(calls)) :
              calls' = Append(calls, NewCall(fn, s))
    /\ UNCHANGED <<gi, raw, pc, quote, esc, esc2, trail, tok, un, unRet>>

\* One of the calls that has not returned takes its next step.
CallRuns ==
    /\ \E i \in DOMAIN calls :
          /\ calls[i].pc # "done"
          /\ calls' = StepCalls(calls, i)
    /\ UNCHANGED <<gi, raw, pc, quote, esc, esc2, trail, tok, un, unRet>>

NextCalls == CallStarts \/ CallRuns

SpecCalls == InitCalls /\ [][NextCalls]_vars

-----------------------------------------------------------------------------
(* The call of SQLGetInteger64                                             *)

InitGetInteger ==
    /\ gi \in {GetIntegerEntry(TRUE, e) : e \in ErrValues}
                \cup {GetIntegerEntry(FALSE, "unset")}
    /\ calls = <<>>
    /\ raw = <<>>
    /\ pc = "start"
    /\ quote = NUL
    /\ esc = <<>>
    /\ esc2 = <<>>
    /\ trail = <<>>
    /\ tok = TokInit(<<>>)
    /\ un = UnInit(<<>>)
    /\ unRet = <<>>

GetIntegerFrame == <<calls, raw, pc, quote, esc, esc2, trail, tok, un, unRet>>

GetIntegerPrepare ==
    /\ gi.pc = "prepare"
    /\ \E code \in PrepareResults : gi' = GiPrepare(gi, code)
    /\ UNCHANGED GetIntegerFrame

GetIntegerPrepareFailed ==
    /\ gi.pc = "prepared"
    /\ gi.rc # "SQLITE_OK"
    /\ gi' = GiPrepareFailed(gi)
    /\ UNCHANGED GetIntegerFrame

GetIntegerStep ==
    /\ gi.pc = "prepared"
    /\ gi.rc = "SQLITE_OK"
    /\ \E code \in StepResults : gi' = GiStep(gi, code)
    /\ UNCHANGED GetIntegerFrame

GetIntegerNoRowSetErr ==
    /\ gi.pc = "stepped"
    /\ gi.rc # "SQLITE_ROW"
    /\ gi' = GiNoRowSetErr(gi)
    /\ UNCHANGED GetIntegerFrame

GetIntegerNoRowFinalize ==
    /\ gi.pc = "noRowFinalize"
    /\ gi' = GiNoRowFinalize(gi)
    /\ UNCHANGED GetIntegerFrame

GetIntegerNoRowReturn ==
    /\ gi.pc = "noRowReturn"
    /\ gi' = GiNoRowReturn(gi)
    /\ UNCHANGED GetIntegerFrame

GetIntegerColumn ==
    /\ gi.pc = "stepped"
    /\ gi.rc = "SQLITE_ROW"
    /\ \E v \in Values : gi' = GiColumn(gi, v)
    /\ UNCHANGED GetIntegerFrame

GetIntegerRowFinalize ==
    /\ gi.pc = "rowFinalize"
    /\ gi' = GiRowFinalize(gi)
    /\ UNCHANGED GetIntegerFrame

GetIntegerRowSetErr ==
    /\ gi.pc = "rowSetErr"
    /\ gi' = GiRowSetErr(gi)
    /\ UNCHANGED GetIntegerFrame

GetIntegerRowReturn ==
    /\ gi.pc = "rowReturn"
    /\ gi' = GiRowReturn(gi)
    /\ UNCHANGED GetIntegerFrame

NextGetInteger ==
    \/ GetIntegerPrepare
    \/ GetIntegerPrepareFailed
    \/ GetIntegerStep
    \/ GetIntegerNoRowSetErr
    \/ GetIntegerNoRowFinalize
    \/ GetIntegerNoRowReturn
    \/ GetIntegerColumn
    \/ GetIntegerRowFinalize
    \/ GetIntegerRowSetErr
    \/ GetIntegerRowReturn

SpecGetInteger == InitGetInteger /\ [][NextGetInteger]_vars

-----------------------------------------------------------------------------
(* Properties                                                              *)

Range(s) == {s[i] : i \in DOMAIN s}

IsQuotedText(q) == pc = "tokenized" /\ quote = q /\ tok.str = Wrap(q, esc)

\* C1: SQLTokenize never emits a token equal to the empty string: at every
\* point of every scan, and in the list returned, no element of papszTokens
\* is empty.
C1_NoEmptyToken ==
    \A i \in DOMAIN tok.papszTokens : tok.papszTokens[i] # <<>>

\* A returned scan of a text with leading, repeated and trailing spaces
\* that ended inside a quoted span.
C1_Witness ==
    /\ pc = "tokenized"
    /\ tok.bInQuote
    /\ tok.str[1] = " "
    /\ Len(tok.papszTokens) >= 2

\* C2: round trip: SQLUnescape("'" + SQLEscapeLiteral(s) + "'") = s and
\* SQLUnescape('"' + SQLEscapeName(s) + '"') = s for every text s.
C2_RoundTrip ==
    (pc = "unescaped" /\ quote \in Quotes /\ trail = <<>>) => unRet = raw

\* The round trip of a text holding both quote characters, for each escaper.
C2_Witness ==
    /\ pc = "unescaped"
    /\ quote = DQ
    /\ trail = <<>>
    /\ un.str = Wrap(DQ, esc)
    /\ {SQ, DQ} \subseteq Range(raw)
    /\ Len(esc) > Len(raw)

\* C3: SQLTokenize of an escaped and wrapped text, q + escape_q(s) + q,
\* returns exactly one token, the whole wrapped text verbatim.
C3_WrappedIsOneToken ==
    (pc = "tokenized" /\ quote \in Quotes) =>
        /\ tok.str = Wrap(quote, esc)
        /\ tok.papszTokens = <<tok.str>>

\* A wrapped text with a doubled quote, a space and a punctuation character
\* inside the span.
C3_Witness ==
    /\ IsQuotedText(SQ)
    /\ SQ \in Range(raw)
    /\ " " \in Range(raw)
    /\ Range(raw) \cap Punct # {}

IsWordToken(t) ==
    t # <<>> /\ Range(t) \cap ({" "} \cup Punct \cup Quotes) = {}

IsPunctToken(t) == Len(t) = 1 /\ t[1] \in Punct

IsQuotedToken(t) == t # <<>> /\ t[1] \in Quotes

\* C4: every token SQLTokenize emits is a word without space, punctuation
\* or quote character, or one punctuation character, or a token that begins
\* with the quote character that opened it; the token under construction
\* inside a span begins with the span's quote character.
C4_TokenKinds ==
    /\ \A i \in DOMAIN tok.papszTokens :
          \/ IsWordToken(tok.papszTokens[i])
          \/ IsPunctToken(tok.papszTokens[i])
          \/ IsQuotedToken(tok.papszTokens[i])
    /\ tok.bInQuote =>
          /\ tok.chQuoteChar \in Quotes
          /\ CharAt(tok.osCurrentToken, 1) = tok.chQuoteChar

\* A returned list that holds a word, a punctuation token and a quoted
\* token, from a text where a quote character follows a word directly.
C4_Witness ==
    /\ pc = "tokenized"
    /\ \E i \in DOMAIN tok.papszTokens : IsWordToken(tok.papszTokens[i])
    /\ \E i \in DOMAIN tok.papszTokens : IsPunctToken(tok.papszTokens[i])
    /\ \E i \in DOMAIN tok.papszTokens : IsQuotedToken(tok.papszTokens[i])
    /\ \E i \in 1..(Len(tok.str) - 1) :
          tok.str[i] = "a" /\ tok.str[i + 1] \in Quotes

IsPunctChar(c) == c \in Punct

\* The punctuation characters of s in order, each as a one-character text.
PunctTokens(s) ==
    LET p == SelectSeq(s, IsPunctChar)
    IN  [i \in 1..Len(p) |-> <<p[i]>>]

\* C5: for a text of punctuation and space characters only, SQLTokenize
\* returns one one-character token per punctuation character, in order,
\* and nothing else.
C5_PunctOnly ==
    (pc = "tokenized" /\ Range(tok.str) \subseteq Punct \cup {" "}) =>
        tok.papszTokens = PunctTokens(tok.str)

\* A text with two adjacent punctuation characters and a space.
C5_Witness ==
    /\ pc = "tokenized"
    /\ Range(tok.str) \subseteq Punct \cup {" "}
    /\ " " \in Range(tok.str)
    /\ \E i \in 1..(Len(tok.str) - 1) :
          tok.str[i] \in Punct /\ tok.str[i + 1] \in Punct
    /\ Len(tok.papszTokens) >= 2

Last(s) == s[Len(s)]

Front(s) == SubSeq(s, 1, Len(s) - 1)

\* The position in str where the last token of the list starts, when the
\* last token is the text up to the end of str.
LastStart(f) == Len(f.str) - Len(Last(f.papszTokens)) + 1

\* The scan returned while inside a quoted span.
Unterminated == pc = "tokenized" /\ tok.bInQuote

\* C6: when the end of the text is reached inside a quoted span, the last
\* token is the text from the span's opening quote character to the end,
\* and the tokens before it are the ones that had been emitted when the
\* scan reached the opening quote character.
C6_UnterminatedQuote ==
    Unterminated =>
        /\ tok.papszTokens # <<>>
        /\ LET k == LastStart(tok)
               before == TokLoop(TokInit(SubSeq(tok.str, 1, k - 1)))
           IN  /\ k \in 1..Len(tok.str)
               /\ tok.str[k] = tok.chQuoteChar
               /\ ~before.bInQuote
               /\ Last(tok.papszTokens) = SubSeq(tok.str, k, Len(tok.str))
               /\ Front(tok.papszTokens) = before.papszTokens

\* An unterminated span that holds a space and follows an emitted token.
C6_Witness ==
    /\ Unterminated
    /\ Len(tok.papszTokens) >= 2
    /\ " " \in Range(Last(tok.papszTokens))

\* The check a caller makes on a quoted token: length > 1 and the last
\* character equals the first.
LooksTerminated(t) == Len(t) > 1 /\ Last(t) = t[1]

\* The i-th token of the returned list is the text of a span that was still
\* open at the end of the text.
FromOpenSpan(i) == Unterminated /\ i = Len(tok.papszTokens)

\* C7 as stated: a quoted token comes from a span still open at the end of
\* the text if and only if it fails the caller's check.
C7_CheckIsExact ==
    pc = "tokenized" =>
        \A i \in DOMAIN tok.papszTokens :
            IsQuotedToken(tok.papszTokens[i]) =>
                (FromOpenSpan(i) <=> ~LooksTerminated(tok.papszTokens[i]))

\* C7: a quoted token that fails the caller's check (length > 1 and last
\* character equal to the first) comes from a span still open at the end
\* of the text; every token of a closed span passes the check.
C7_FailedCheckIsUnterminated ==
    pc = "tokenized" =>
        \A i \in DOMAIN tok.papszTokens :
            (IsQuotedToken(tok.papszTokens[i])
                /\ ~LooksTerminated(tok.papszTokens[i])) => FromOpenSpan(i)

\* A returned list with a closed span that passes the check and an open
\* span that fails it.
C7_Witness ==
    /\ Unterminated
    /\ ~LooksTerminated(Last(tok.papszTokens))
    /\ \E i \in 1..(Len(tok.papszTokens) - 1) :
          /\ IsQuotedToken(tok.papszTokens[i])
          /\ LooksTerminated(tok.papszTokens[i])

\* C8: SQLUnescape returns a token that is empty or does not begin with a
\* quote character unchanged, whatever quote characters follow.
C8_PassThrough ==
    (pc = "unescaped" /\ CharAt(un.str, 1) \notin Quotes) => unRet = un.str

\* The pass-through of a word followed by a doubled quote character.
C8_Witness ==
    /\ pc = "unescaped"
    /\ CharAt(un.str, 1) = "a"
    /\ \E i \in 2..(Len(un.str) - 1) :
          un.str[i] \in Quotes /\ un.str[i + 1] = un.str[i]
    /\ unRet = un.str

\* s holds a q that is not part of a pair of adjacent q, pairs counted
\* from the left.
RECURSIVE HasUndoubled(_, _)
HasUndoubled(s, q) ==
    IF s = <<>> THEN FALSE
    ELSE IF s[1] # q THEN HasUndoubled(Tail(s), q)
    ELSE IF CharAt(s, 2) = q THEN HasUndoubled(Tail(Tail(s)), q)
    ELSE TRUE

\* C9: SQLUnescape(q + escape_q(s) + q + t) = s for every trailing text t
\* that does not begin with q; and for a text that begins with a quote
\* character q and has no un-doubled q after it, the result is the rest of
\* the text with each doubled q collapsed to one, that is the text whose
\* escape_q is the rest.
C9_StopsAtClosingDelimiter ==
    /\ (pc = "unescaped" /\ quote \in Quotes) =>
          /\ un.str = Wrap(quote, esc) \o trail
          /\ CharAt(trail, 1) # quote
          /\ unRet = raw
    /\ (pc = "unescaped" /\ CharAt(un.str, 1) \in Quotes
            /\ ~HasUndoubled(Tail(un.str), un.str[1])) =>
          /\ Escape(un.str[1], unRet) = Tail(un.str)
          /\ un.pszVal = Len(un.str) + 1

\* A closing delimiter followed by text that holds the delimiter again.
C9_Witness ==
    /\ pc = "unescaped"
    /\ quote = SQ
    /\ SQ \in Range(raw)
    /\ trail # <<>>

\* An opening quote with a doubled quote after it and no closing delimiter.
C9_WitnessOpen ==
    /\ pc = "unescaped"
    /\ quote = NUL
    /\ CharAt(un.str, 1) \in Quotes
    /\ ~HasUndoubled(Tail(un.str), un.str[1])
    /\ Len(unRet) + 1 < Len(un.str)

Count(s, c) == Cardinality({i \in DOMAIN s : s[i] = c})

\* s with every single quote replaced by four.
RECURSIVE Quadrupled(_)
Quadrupled(s) ==
    IF s = <<>> THEN <<>>
    ELSE (IF s[1] = SQ THEN <<SQ, SQ, SQ, SQ>> ELSE <<s[1]>>)
             \o Quadrupled(Tail(s))

\* C10: SQLEscapeLiteral(SQLEscapeLiteral(s)) = SQLEscapeLiteral(s) if and
\* only if s holds no single quote; the second application leaves four
\* single quotes for each one of s and the other characters as they were.
C10_NotIdempotent ==
    (pc = "escapedTwice" /\ quote = SQ) =>
        /\ (esc2 = esc) <=> (SQ \notin Range(raw))
        /\ Count(esc2, SQ) = 4 * Count(raw, SQ)
        /\ esc2 = Quadrupled(raw)

\* A text with a single quote between other characters, escaped twice.
C10_Witness ==
    /\ pc = "escapedTwice"
    /\ quote = SQ
    /\ Count(raw, SQ) >= 1
    /\ Len(raw) > Count(raw, SQ)
    /\ esc2 # esc

\* s with every ' replaced by " and every " by '.
Swap(s) ==
    [i \in 1..Len(s) |->
        IF s[i] = SQ THEN DQ ELSE IF s[i] = DQ THEN SQ ELSE s[i]]

IsNotSQ(c) == c # SQ

IsNotDQ(c) == c # DQ

\* C11: SQLEscapeName(s) = swap(SQLEscapeLiteral(swap(s))), and the other
\* way round, where swap exchanges the two quote characters;
\* SQLEscapeName leaves everything but the double quotes as it was,
\* SQLEscapeLiteral everything but the single quotes, and the result is
\* longer than s by the number of doubled quotes only (no delimiters).
C11_EscapersAreSwapped ==
    /\ quote = DQ =>
          /\ esc = Swap(SQLEscapeLiteral(Swap(raw)))
          /\ SelectSeq(esc, IsNotDQ) = SelectSeq(raw, IsNotDQ)
          /\ Len(esc) = Len(raw) + Count(raw, DQ)
    /\ quote = SQ =>
          /\ esc = Swap(SQLEscapeName(Swap(raw)))
          /\ SelectSeq(esc, IsNotSQ) = SelectSeq(raw, IsNotSQ)
          /\ Len(esc) = Len(raw) + Count(raw, SQ)

\* SQLEscapeName applied to a text that holds both quote characters.
C11_Witness ==
    /\ pc = "escaped"
    /\ quote = DQ
    /\ {SQ, DQ} \subseteq Range(raw)
    /\ Len(raw) >= 3
    /\ esc # raw

RECURSIVE Concat(_)
Concat(ts) == IF ts = <<>> THEN <<>> ELSE ts[1] \o Concat(Tail(ts))

\* s without the spaces that lie outside quoted spans; q is the quote
\* character of the span s starts in, NUL outside a span.
RECURSIVE Squeeze(_, _)
Squeeze(s, q) ==
    IF s = <<>> THEN <<>>
    ELSE IF q = NUL
    THEN IF s[1] = " " THEN Squeeze(Tail(s), NUL)
         ELSE IF s[1] \in Quotes THEN <<s[1]>> \o Squeeze(Tail(s), s[1])
         ELSE <<s[1]>> \o Squeeze(Tail(s), NUL)
    ELSE IF s[1] = q /\ CharAt(s, 2) = q
         THEN <<q, q>> \o Squeeze(Tail(Tail(s)), q)
         ELSE IF s[1] = q THEN <<q>> \o Squeeze(Tail(s), NUL)
         ELSE <<s[1]>> \o Squeeze(Tail(s), q)

\* C13: SQLTokenize drops no character: the tokens returned, concatenated
\* in order, are the text without the spaces outside quoted spans.
C13_NoCharacterDropped ==
    pc = "tokenized" => Concat(tok.papszTokens) = Squeeze(tok.str, NUL)

\* str = q + s + q where s holds no q.
IsPlainSpan(str) ==
    /\ Len(str) >= 2
    /\ str[1] \in Quotes
    /\ Last(str) = str[1]
    /\ \A i \in 2..(Len(str) - 1) : str[i] # str[1]

\* C14: inside a span opened by q the other quote character is an ordinary
\* character: for every text s without q, SQLTokenize(q + s + q) returns
\* the one token q + s + q, whatever other quote characters, spaces and
\* punctuation s holds.
C14_OtherQuoteIsOrdinary ==
    (pc = "tokenized" /\ IsPlainSpan(tok.str)) => tok.papszTokens = <<tok.str>>

\* A span that holds the other quote character twice in a row and a space.
C14_Witness ==
    /\ pc = "tokenized"
    /\ IsPlainSpan(tok.str)
    /\ " " \in Range(tok.str)
    /\ \E i \in 2..(Len(tok.str) - 2) :
          /\ tok.str[i] \in Quotes
          /\ tok.str[i] # tok.str[1]
          /\ tok.str[i + 1] = tok.str[i]

\* C15: at the top of every iteration of the loop of SQLTokenize and at
\* the end of the text, bInQuote holds exactly when chQuoteChar is a quote
\* character, bInSpace holds exactly when osCurrentToken is empty, and
\* inside a span bInSpace is false and osCurrentToken begins with
\* chQuoteChar.
C15_ScanState ==
    /\ tok.bInQuote <=> tok.chQuoteChar \in Quotes
    /\ ~tok.bInQuote <=> tok.chQuoteChar = NUL
    /\ tok.bInSpace <=> tok.osCurrentToken = <<>>
    /\ tok.bInQuote =>
          /\ ~tok.bInSpace
          /\ CharAt(tok.osCurrentToken, 1) = tok.chQuoteChar

\* The top of an iteration right after a span was closed, with a token
\* emitted, and the top of one inside a span.
C15_Witness ==
    /\ pc = "tokenize"
    /\ tok.bInQuote
    /\ Len(tok.osCurrentToken) >= 2
    /\ \E i \in DOMAIN tok.papszTokens : IsQuotedToken(tok.papszTokens[i])

\* The doubled-quote case of SQLTokenize at the cursor of f.
TokAtDoubled(f) ==
    /\ f.bInQuote
    /\ CharAt(f.str, f.pszStr) = f.chQuoteChar
    /\ CharAt(f.str, f.pszStr + 1) = f.chQuoteChar

\* The doubled-quote case of SQLUnescape at the cursor of f.
UnAtDoubled(f) ==
    /\ CharAt(f.str, f.pszVal) = f.chQuoteChar
    /\ CharAt(f.str, f.pszVal + 1) = f.chQuoteChar

C16_Step ==
    /\ (pc = "tokenize" /\ pc' = "tokenize") =>
          /\ tok.pszStr <= Len(tok.str)
          /\ tok'.pszStr = tok.pszStr + (IF TokAtDoubled(tok) THEN 2 ELSE 1)
          /\ tok'.pszStr <= Len(tok.str) + 1
    /\ (pc = "tokenize" /\ pc' = "tokenized") =>
          tok.pszStr = Len(tok.str) + 1
    /\ (pc = "unescape" /\ pc' = "unescape") =>
          /\ un.pszVal <= Len(un.str)
          /\ un'.pszVal = un.pszVal + (IF UnAtDoubled(un) THEN 2 ELSE 1)
          /\ un'.pszVal <= Len(un.str) + 1
    /\ (pc = "unescape" /\ pc' = "unescaped") =>
          \/ un.pszVal = Len(un.str) + 1
          \/ /\ un.pszVal <= Len(un.str)
             /\ un.str[un.pszVal] = un.chQuoteChar
             /\ ~UnAtDoubled(un)

\* C16: in SQLTokenize and SQLUnescape every iteration moves the cursor
\* forward by one position, or by two in the doubled-quote case and only
\* then; the cursor never passes the terminator; the loop of SQLTokenize
\* ends exactly at the terminator, the loop of SQLUnescape at the
\* terminator or at the closing delimiter.
C16_CursorAdvances == [][C16_Step]_vars

\* A scan whose last iteration was the doubled-quote case on the last two
\* characters of the text.
C16_Witness ==
    /\ pc = "tokenized"
    /\ tok.bInQuote
    /\ Len(tok.str) >= 3
    /\ tok.pszStr = Len(tok.str) + 1
    /\ tok.str[Len(tok.str)] = tok.chQuoteChar
    /\ tok.str[Len(tok.str) - 1] = tok.chQuoteChar
    /\ LooksTerminated(Last(tok.papszTokens))
    /\ " " \in Range(tok.str)

\* The value the function of the call c returns for the argument of c when
\* nothing else runs.
AloneResult(c) ==
    CASE c.fn = "SQLTokenize" -> SQLTokenize(c.arg)
      [] c.fn = "SQLUnescape" -> SQLUnescape(c.arg)
      [] c.fn = "SQLEscapeLiteral" -> SQLEscapeLiteral(c.arg)
      [] c.fn = "SQLEscapeName" -> SQLEscapeName(c.arg)

\* C12: calls of SQLTokenize, SQLUnescape and the escapers on independent
\* arguments, interleaved step by step in any order, each return what the
\* same call returns when it runs alone.
C12_Reentrant ==
    \A i \in DOMAIN calls :
        calls[i].pc = "done" => calls[i].ret = AloneResult(calls[i])

\* Two calls of SQLTokenize have returned, one that ended inside a span of
\* one quote character and one that closed a span of the other.
C12_Witness ==
    /\ Len(calls) = NCalls
    /\ \A i \in DOMAIN calls : calls[i].pc = "done"
    /\ \E i, j \in DOMAIN calls :
          /\ i # j
          /\ calls[i].fn = "SQLTokenize"
          /\ calls[j].fn = "SQLTokenize"
          /\ calls[i].f.bInQuote
          /\ calls[j].ret = <<calls[j].arg>>
          /\ Len(calls[j].arg) >= 2
          /\ calls[j].arg[1] \in Quotes
          /\ calls[j].arg[1] # calls[i].f.chQuoteChar

\* SQLGetInteger64 returned on one of its two failure paths.
GiFailed == gi.poStmt = "nullptr" \/ gi.rc # "SQLITE_ROW"

\* C17: SQLGetInteger64 calls sqlite3_finalize never when the prepare
\* failed and exactly once before it returns when the prepare succeeded,
\* row or not; with err non-null it stores through err exactly once on
\* every path, OGRERR_FAILURE exactly when the prepare failed or the step
\* gave no row, and it returns 0 on every failure path.
C17_StatementLifecycle ==
    /\ gi.finalizes <= 1
    /\ gi.errWrites <= 1
    /\ gi.poStmt = "finalized" <=> gi.finalizes = 1
    /\ gi.pc = "returned" =>
          /\ gi.poStmt = "nullptr" => gi.finalizes = 0
          /\ gi.poStmt # "nullptr" =>
                gi.poStmt = "finalized" /\ gi.finalizes = 1
          /\ gi.errPtr =>
                /\ gi.errWrites = 1
                /\ gi.err = IF GiFailed THEN "OGRERR_FAILURE" ELSE "OGRERR_NONE"
          /\ ~gi.errPtr => gi.errWrites = 0 /\ gi.err = "unset"
          /\ GiFailed => gi.ret = 0
          /\ ~GiFailed => gi.ret = gi.i

\* A return after a successful prepare and a step that gave no row.
C17_Witness ==
    /\ gi.pc = "returned"
    /\ gi.errPtr
    /\ gi.ret = 0
    /\ gi.rc = "SQLITE_DONE"
    /\ gi.poStmt = "finalized"
    /\ gi.err = "OGRERR_FAILURE"

=============================================================================
